---------------------------- MODULE Spec2Model ----------------------------
(***************************************************************************)
(* Verification model of the CombustiblesRD scrapers (scraper/scraper.py,  *)
(* scraper/micm_scraper.py) and trend builders (scraper/build_trend.py,    *)
(* scraper/build_trend_min.py).                                            *)
(*                                                                         *)
(* A Python str is a sequence of one-character strings.  The characters    *)
(* outside ASCII are written  "a'", "e'", "i'", "o'", "u'" and "A'", ...,  *)
(* "U'" (the precomposed accented vowels), "'" (U+0301, the combining      *)
(* acute accent), "deg" (U+00B0) and "^3" (U+00B3).                        *)
(* A Python float is an exact decimal [ok, m, e] standing for m / 10^e     *)
(* with no trailing zero in the fraction; ok = FALSE stands for a raised   *)
(* ValueError.                                                             *)
(***************************************************************************)
EXTENDS Integers, Sequences, FiniteSets, TLC

VARIABLES
    tok,        \* parse_num: the token handed to it
    num,        \* parse_num: its result, NotRun before the call
    numSrc,     \* parse_num: which script's copy is called
    labelIn,    \* label matching: the fuel and the spelling of its label
    labelSrc,   \* label matching: which script's matcher is called
    labelKey,   \* label matching: its result, Pending before the call
    now,        \* the clock: the tick utcnow() reads
    site,       \* the document the listing page leads to
    latest,     \* data/latest.json: <<>> or <<its content>>
    history,    \* data/history: file name (a date) -> content
    log,        \* the completed scraper runs, in order: [done, payload]
    lastRun,    \* the last scraper run and what it worked out
    runs,       \* how many scraper runs were started
    trend,      \* data/trend.json: <<>> or <<its content>>
    trendMin,   \* data/trend_min.json: <<>> or <<its content>>
    lastBuild   \* the last trend build: which script, and whether it raised

numVars == <<tok, num, numSrc>>
labelVars == <<labelIn, labelSrc, labelKey>>
runVars == <<now, site, latest, history, log, lastRun, runs>>
trendVars == <<trend, trendMin, lastBuild>>

vars == <<tok, num, numSrc, labelIn, labelSrc, labelKey, now, site, latest, history, log, lastRun, runs,
          trend, trendMin, lastBuild>>

NoBuild == [script |-> "", exc |-> FALSE, n |-> 0]

-----------------------------------------------------------------------------
(* Bounds of the model *)

\* longest enumerated numeric token
MaxTokLen == 4

-----------------------------------------------------------------------------
(* str helpers *)

LowerAZ == <<"a","b","c","d","e","f","g","h","i","j","k","l","m",
             "n","o","p","q","r","s","t","u","v","w","x","y","z",
             "a'","e'","i'","o'","u'">>
UpperAZ == <<"A","B","C","D","E","F","G","H","I","J","K","L","M",
             "N","O","P","Q","R","S","T","U","V","W","X","Y","Z",
             "A'","E'","I'","O'","U'">>
Digits == <<"0","1","2","3","4","5","6","7","8","9">>

Range(f) == {f[i] : i \in DOMAIN f}

DigitSet == Range(Digits)
LowerSet == Range(LowerAZ)
UpperSet == Range(UpperAZ)
SpaceChars == {" ", "\t", "\n"}

IsDigit(c) == c \in DigitSet
IsSpace(c) == c \in SpaceChars

DigitOf == [c \in DigitSet |-> (CHOOSE i \in DOMAIN Digits : Digits[i] = c) - 1]
DigitVal(c) == DigitOf[c]

ToLower == [c \in UpperSet |-> LowerAZ[CHOOSE i \in DOMAIN UpperAZ : UpperAZ[i] = c]]
ToUpper == [c \in LowerSet |-> UpperAZ[CHOOSE i \in DOMAIN LowerAZ : LowerAZ[i] = c]]

\* str.lower() and str.upper() on one character
LowerChar(c) == IF c \in UpperSet THEN ToLower[c] ELSE c
UpperChar(c) == IF c \in LowerSet THEN ToUpper[c] ELSE c

lower(s) == [i \in DOMAIN s |-> LowerChar(s[i])]
upper(s) == [i \in DOMAIN s |-> UpperChar(s[i])]

\* sub in s
Contains(s, sub) ==
    \E i \in 0..(Len(s) - Len(sub)) : SubSeq(s, i + 1, i + Len(sub)) = sub

\* s.find(sub, from): 0-based index of the first occurrence at or after from, or -1
find(s, sub, from) ==
    LET hits == {i \in from..(Len(s) - Len(sub)) :
                     SubSeq(s, i + 1, i + Len(sub)) = sub}
    IN IF hits = {} THEN -1
       ELSE CHOOSE i \in hits : \A j \in hits : i <= j

\* s.strip()
RECURSIVE lstrip(_)
lstrip(s) == IF s # <<>> /\ IsSpace(Head(s)) THEN lstrip(Tail(s)) ELSE s
RECURSIVE rstrip(_)
rstrip(s) ==
    IF s # <<>> /\ IsSpace(s[Len(s)]) THEN rstrip(SubSeq(s, 1, Len(s) - 1)) ELSE s
strip(s) == rstrip(lstrip(s))

\* s.replace(c, r) for a one-character c
RECURSIVE replace(_, _, _)
replace(s, c, r) ==
    IF s = <<>> THEN <<>>
    ELSE (IF Head(s) = c THEN r ELSE <<Head(s)>>) \o replace(Tail(s), c, r)

\* concatenation of a sequence of strings with a separator: sep.join(parts)
RECURSIVE join(_, _)
join(sep, parts) ==
    IF parts = <<>> THEN <<>>
    ELSE IF Len(parts) = 1 THEN parts[1]
    ELSE parts[1] \o sep \o join(sep, Tail(parts))

-----------------------------------------------------------------------------
(* float *)

ValueError == [ok |-> FALSE, m |-> 0, e |-> 0]
NotRun == [ok |-> FALSE, m |-> -1, e |-> 0]

RECURSIVE Pow10(_)
Pow10(n) == IF n = 0 THEN 1 ELSE 10 * Pow10(n - 1)

RECURSIVE DigitsVal(_)
DigitsVal(s) ==
    IF s = <<>> THEN 0 ELSE 10 * DigitsVal(SubSeq(s, 1, Len(s) - 1)) + DigitVal(s[Len(s)])

\* the decimal m / 10^e without trailing zeros in its fraction
RECURSIVE Normal(_, _)
Normal(m, e) ==
    IF e > 0 /\ m % 10 = 0 THEN Normal(m \div 10, e - 1) ELSE [ok |-> TRUE, m |-> m, e |-> e]

\* float(s) for a string of digits, dots and commas: one dot at most, one digit
\* at least ("5." and ".5" are floats; ".", "" and "1.2.3" raise ValueError)
float(s) ==
    LET dots == {i \in DOMAIN s : s[i] = "."}
        digs == {i \in DOMAIN s : IsDigit(s[i])}
    IN IF \/ Cardinality(dots) > 1
          \/ digs = {}
          \/ dots \cup digs # DOMAIN s
       THEN ValueError
       ELSE LET nofrac == dots = {}
                p == IF nofrac THEN Len(s) + 1 ELSE CHOOSE i \in dots : TRUE
                ip == SubSeq(s, 1, p - 1)
                fp == SubSeq(s, p + 1, Len(s))
            IN Normal(DigitsVal(ip \o fp), Len(fp))

\* parse_num of scraper.py; micm_scraper.py lines 94-100 are the same text
parse_num(s0) ==
    LET s == strip(s0)
        t == IF Contains(s, <<",">>) /\ Contains(s, <<".">>)
             THEN replace(replace(s, ".", <<>>), ",", <<".">>)
             ELSE replace(s, ",", <<".">>)
    IN float(t)

micm_parse_num(s0) ==
    LET s == strip(s0)
        t == IF Contains(s, <<",">>) /\ Contains(s, <<".">>)
             THEN replace(replace(s, ".", <<>>), ",", <<".">>)
             ELSE replace(s, ",", <<".">>)
    IN float(t)

-----------------------------------------------------------------------------
(* re: the fragment of Python's regular expressions the scrapers use.       *)
(* A pattern is a sequence of atoms: \b, a character class with a greedy    *)
(* repetition lo..hi, or an optional group (?:...)?.  Matching backtracks   *)
(* in Python's order (longest repetition first, the group before its       *)
(* absence), so the end of a match is the one re reports.                  *)

(* hi = -1 stands for an unbounded repetition.                              *)

WordB == <<[k |-> "b"]>>
Cls(cs, lo, hi) ==
    <<[k |-> "c", cs |-> cs, lcs |-> {LowerChar(x) : x \in cs}, lo |-> lo, hi |-> hi]>>
Lit(s) == [i \in DOMAIN s |-> Cls({s[i]}, 1, 1)[1]]
Opt(c) == Cls({c}, 0, 1)
OptGroup(p) == <<[k |-> "g", sub |-> p]>>
Spaces0 == Cls(SpaceChars, 0, -1)
Spaces1 == Cls(SpaceChars, 1, -1)

\* \w: letters (accented ones too), digits and the underscore
WordChars == LowerSet \cup UpperSet \cup DigitSet \cup {"_"}
IsWord(c) == c \in WordChars

AtBoundary(t, pos) ==
    LET before == pos >= 1 /\ IsWord(t[pos])
        after == pos < Len(t) /\ IsWord(t[pos + 1])
    IN before # after

\* whether character c is in the class of atom a, under re.IGNORECASE when ic
InClass(c, a, ic) ==
    IF ic THEN LowerChar(c) \in a.lcs ELSE c \in a.cs

\* how many characters from offset pos on are in the class, cap at most
RECURSIVE RunLen(_, _, _, _, _)
RunLen(t, pos, a, ic, cap) ==
    IF cap = 0 \/ pos >= Len(t) \/ ~InClass(t[pos + 1], a, ic) THEN 0
    ELSE 1 + RunLen(t, pos + 1, a, ic, cap - 1)

\* the offset where a match of pat[k..] that starts at offset pos ends, or -1
RECURSIVE MatchFrom(_, _, _, _, _)
RECURSIVE MatchRep(_, _, _, _, _, _, _)
MatchFrom(pat, k, t, pos, ic) ==
    IF k > Len(pat) THEN pos
    ELSE LET a == pat[k]
         IN CASE a.k = "b" ->
                   IF AtBoundary(t, pos) THEN MatchFrom(pat, k + 1, t, pos, ic) ELSE -1
              [] a.k = "g" ->
                   LET r == MatchFrom(a.sub \o SubSeq(pat, k + 1, Len(pat)), 1, t, pos, ic)
                   IN IF r # -1 THEN r ELSE MatchFrom(pat, k + 1, t, pos, ic)
              [] OTHER ->
                   LET n == RunLen(t, pos, a, ic, a.hi)
                   IN IF n < a.lo THEN -1 ELSE MatchRep(pat, k + 1, t, pos, ic, n, a.lo)
MatchRep(pat, k, t, pos, ic, n, lo) ==
    LET r == MatchFrom(pat, k, t, pos + n, ic)
    IN IF r # -1 THEN r
       ELSE IF n > lo THEN MatchRep(pat, k, t, pos, ic, n - 1, lo)
       ELSE -1

MatchAt(pat, t, pos, ic) == MatchFrom(pat, 1, t, pos, ic)

\* a condition every match of pat at offset pos meets: when pat begins (after
\* a \b) with a class that must occur, the character at pos is in it
CanStart(pat, t, pos, ic) ==
    LET a == IF pat[1].k = "b" /\ Len(pat) > 1 THEN pat[2] ELSE pat[1]
    IN (a.k = "c" /\ a.lo >= 1) => (pos < Len(t) /\ InClass(t[pos + 1], a, ic))

NoMatch == [found |-> FALSE, start |-> 0, end |-> 0]

\* re.search(pat, t): the leftmost match, as 0-based offsets [start, end)
re_search(pat, t, ic) ==
    LET starts == {pos \in 0..Len(t) :
                      CanStart(pat, t, pos, ic) /\ MatchAt(pat, t, pos, ic) # -1}
    IN IF starts = {} THEN NoMatch
       ELSE LET s == CHOOSE p \in starts : \A q \in starts : p <= q
            IN [found |-> TRUE, start |-> s, end |-> MatchAt(pat, t, s, ic)]

\* t[a:b] of Python for 0 <= a
Slice(t, a, b) == SubSeq(t, a + 1, IF b > Len(t) THEN Len(t) ELSE b)

\* re.sub(r"[^a-z0-9]+", "_", low).strip("_"): the fallback key of norm_key
SlugChars == Range(SubSeq(LowerAZ, 1, 26)) \cup DigitSet
IsSlugChar(c) == c \in SlugChars
\* re.sub of a one-character class repeated (+) by one character rep: each
\* maximal run of characters satisfying InRun becomes rep
CollapseRuns(s, InRun(_), rep) ==
    LET marked == [i \in DOMAIN s |->
                      [c |-> IF InRun(s[i]) THEN rep ELSE s[i],
                       keep |-> ~InRun(s[i]) \/ i = 1 \/ ~InRun(s[i - 1])]]
        kept == SelectSeq(marked, LAMBDA x : x.keep)
    IN [i \in DOMAIN kept |-> kept[i].c]
NotSlugChar(c) == ~IsSlugChar(c)
RECURSIVE StripChar(_, _)
StripChar(s, c) ==
    IF s # <<>> /\ Head(s) = c THEN StripChar(Tail(s), c)
    ELSE IF s # <<>> /\ s[Len(s)] = c THEN StripChar(SubSeq(s, 1, Len(s) - 1), c)
    ELSE s
Slug(low) == StripChar(CollapseRuns(low, NotSlugChar, "_"), "_")

\* re.sub(r"\s+", " ", s)
CollapseSpaces(s) == CollapseRuns(s, IsSpace, " ")

\* re.sub(r"[ \t]+", " ", s)
IsBlank(c) == c \in {" ", "\t"}
CollapseBlanks(s) == CollapseRuns(s, IsBlank, " ")

\* re.sub(r"\(.*?\)", "", s): every shortest "(...)" on one line is removed
RECURSIVE DropParens(_)
DropParens(s) ==
    IF s = <<>> THEN <<>>
    ELSE IF Head(s) = "("
    THEN LET close == {i \in 2..Len(s) : s[i] = ")"
                          /\ \A j \in 2..(i - 1) : s[j] # "\n" /\ s[j] # ")"}
         IN IF close = {} THEN <<"(">> \o DropParens(Tail(s))
            ELSE DropParens(SubSeq(s, (CHOOSE i \in close : TRUE) + 1, Len(s)))
    ELSE <<Head(s)>> \o DropParens(Tail(s))

\* s.splitlines() for "\n" line ends
RECURSIVE splitlines(_)
splitlines(s) ==
    IF s = <<>> THEN <<>>
    ELSE LET nl == find(s, <<"\n">>, 0)
         IN IF nl = -1 THEN <<s>>
            ELSE <<SubSeq(s, 1, nl)>> \o splitlines(SubSeq(s, nl + 2, Len(s)))

\* unicodedata.normalize("NFD", s) with the Mn characters dropped
Accented == <<"a'","e'","i'","o'","u'","A'","E'","I'","O'","U'">>
Bases == <<"a","e","i","o","u","A","E","I","O","U">>
AccentedSet == Range(Accented)
BaseOf == [c \in AccentedSet |-> Bases[CHOOSE i \in DOMAIN Accented : Accented[i] = c]]
StripAccentChar(c) ==
    IF c = "'" THEN <<>>
    ELSE IF c \in AccentedSet THEN <<BaseOf[c]>>
    ELSE <<c>>
strip_accents(s) ==
    LET kept == SelectSeq(s, LAMBDA c : StripAccentChar(c) # <<>>)
    IN [i \in DOMAIN kept |-> StripAccentChar(kept[i])[1]]

\* collapse(s): lower case, no accents, only a-z0-9
collapse(s) == SelectSeq(lower(strip_accents(s)), IsSlugChar)

-----------------------------------------------------------------------------
(* Labels and keys *)

None == <<"None">>

\* the canonical keys of norm_key
K_gasolina_premium == <<"g","a","s","o","l","i","n","a","_","p","r","e","m","i","u","m">>
K_gasolina_regular == <<"g","a","s","o","l","i","n","a","_","r","e","g","u","l","a","r">>
K_gasoil_premium == <<"g","a","s","o","i","l","_","p","r","e","m","i","u","m">>
K_gasoil_regular == <<"g","a","s","o","i","l","_","r","e","g","u","l","a","r">>
K_gasoil_optimo == <<"g","a","s","o","i","l","_","o","p","t","i","m","o">>
K_avtur == <<"a","v","t","u","r">>
K_kerosene == <<"k","e","r","o","s","e","n","e">>
K_fueloil_1s == <<"f","u","e","l","o","i","l","_","1","s">>
K_fueloil_6 == <<"f","u","e","l","o","i","l","_","6">>
K_glp == <<"g","l","p">>
K_gas_natural == <<"g","a","s","_","n","a","t","u","r","a","l">>

\* the canonical display labels
L_GasolinaPremium == <<"G","a","s","o","l","i","n","a"," ","P","r","e","m","i","u","m">>
L_GasolinaRegular == <<"G","a","s","o","l","i","n","a"," ","R","e","g","u","l","a","r">>
L_GasoilPremium == <<"G","a","s","o","i","l"," ","P","r","e","m","i","u","m">>
L_GasoilRegular == <<"G","a","s","o","i","l"," ","R","e","g","u","l","a","r">>
L_GasoilOptimo == <<"G","a","s","o","i","l"," ","O'","p","t","i","m","o">>
L_Avtur == <<"A","v","t","u","r">>
L_Kerosene == <<"K","e","r","o","s","e","n","e">>
L_FuelOil6 == <<"F","u","e","l"," ","O","i","l"," ","#","6">>
L_FuelOil1S == <<"F","u","e","l"," ","O","i","l"," ","1","%","S">>
L_GasLicuadodePetroleo == <<"G","a","s"," ","L","i","c","u","a","d","o"," ","d","e"," ","P","e","t","r","o'","l","e","o">>
L_GasNatural == <<"G","a","s"," ","N","a","t","u","r","a","l">>

\* FUEL_KEYS of micm_scraper.py, in insertion order
FUEL_KEYS == <<
    <<<<"g","a","s","o","l","i","n","a"," ","p","r","e","m","i","u","m">>, K_gasolina_premium>>,
    <<<<"g","a","s","o","l","i","n","a"," ","r","e","g","u","l","a","r">>, K_gasolina_regular>>,
    <<<<"g","a","s","o","i","l"," ","r","e","g","u","l","a","r">>, K_gasoil_regular>>,
    <<<<"g","a","s","o","i","l"," ","o'","p","t","i","m","o">>, K_gasoil_optimo>>,
    <<<<"g","a","s","o","i","l"," ","o","p","t","i","m","o">>, K_gasoil_optimo>>,
    <<<<"a","v","t","u","r">>, K_avtur>>,
    <<<<"k","e","r","o","s","e","n","e">>, K_kerosene>>,
    <<<<"f","u","e","l"," ","o","i","l"," ","#","6">>, K_fueloil_6>>,
    <<<<"f","u","e","l","o","i","l"," ","#","6">>, K_fueloil_6>>,
    <<<<"f","u","e","l"," ","o","i","l"," ","1","%","s">>, K_fueloil_1s>>,
    <<<<"f","u","e","l","o","i","l"," ","1","%","s">>, K_fueloil_1s>>,
    <<<<"g","a","s"," ","l","i","c","u","a","d","o"," ","d","e"," ","p","e","t","r","o'","l","e","o">>, K_glp>>,
    <<<<"g","a","s"," ","l","i","c","u","a","d","o"," ","d","e"," ","p","e","t","r","o","l","e","o">>, K_glp>>,
    <<<<"g","a","s"," ","l","i","c","u","a","d","o"," ","d","e"," ","p","e","t","r","o'","l","e","o"," ","(","g","l","p",")">>, K_glp>>,
    <<<<"g","a","s"," ","l","i","c","u","a","d","o"," ","d","e"," ","p","e","t","r","o","l","e","o"," ","(","g","l","p",")">>, K_glp>>,
    <<<<"g","a","s"," ","n","a","t","u","r","a","l">>, K_gas_natural>> >>

\* LABEL_SYNONYMS of micm_scraper.py, in insertion order
LABEL_SYNONYMS == <<
    <<<<"g","a","s","o","l","i","n","a"," ","p","r","e","m","i","u","m">>, L_GasolinaPremium>>,
    <<<<"g","a","s","o","l","i","n","a"," ","r","e","g","u","l","a","r">>, L_GasolinaRegular>>,
    <<<<"g","a","s","o","i","l"," ","r","e","g","u","l","a","r">>, L_GasoilRegular>>,
    <<<<"g","a","s","o","i","l"," ","o'","p","t","i","m","o">>, L_GasoilOptimo>>,
    <<<<"g","a","s","o","i","l"," ","o","p","t","i","m","o">>, L_GasoilOptimo>>,
    <<<<"a","v","t","u","r">>, L_Avtur>>,
    <<<<"k","e","r","o","s","e","n","e">>, L_Kerosene>>,
    <<<<"f","u","e","l"," ","o","i","l"," ","#","6">>, L_FuelOil6>>,
    <<<<"f","u","e","l","o","i","l"," ","#","6">>, L_FuelOil6>>,
    <<<<"f","u","e","l"," ","o","i","l"," ","1","%","s">>, L_FuelOil1S>>,
    <<<<"f","u","e","l","o","i","l"," ","1","%","s">>, L_FuelOil1S>>,
    <<<<"g","a","s"," ","l","i","c","u","a","d","o"," ","d","e"," ","p","e","t","r","o'","l","e","o">>, L_GasLicuadodePetroleo>>,
    <<<<"g","a","s"," ","l","i","c","u","a","d","o"," ","d","e"," ","p","e","t","r","o","l","e","o">>, L_GasLicuadodePetroleo>>,
    <<<<"g","a","s"," ","n","a","t","u","r","a","l">>, L_GasNatural>> >>


\* norm_key of scraper.py
norm_key(label) ==
    LET low == lower(label)
        has(x) == Contains(low, x)
    IN CASE has(<<"g","a","s","o","l","i","n","a">>) /\ has(<<"p","r","e","m","i","u","m">>) -> K_gasolina_premium
         [] has(<<"g","a","s","o","l","i","n","a">>) /\ has(<<"r","e","g","u","l","a","r">>) -> K_gasolina_regular
         [] has(<<"g","a","s","o","i","l">>) /\ has(<<"p","r","e","m","i","u","m">>) -> K_gasoil_premium
         [] has(<<"g","a","s","o","i","l">>) /\ has(<<"r","e","g","u","l","a","r">>) -> K_gasoil_regular
         [] has(<<"g","a","s","o","i","l">>) /\ (has(<<"o'","p","t","i","m","o">>) \/ has(<<"o","p","t","i","m","o">>)) -> K_gasoil_optimo
         [] has(<<"a","v","t","u","r">>) -> K_avtur
         [] has(<<"k","e","r","o","s">>) -> K_kerosene
         [] (has(<<"f","u","e","l">>) \/ has(<<"f","u","e","l","o","i","l">>)) /\ (has(<<"1">>) /\ has(<<"s">>)) -> K_fueloil_1s
         [] (has(<<"f","u","e","l">>) \/ has(<<"f","u","e","l","o","i","l">>)) /\ (has(<<"#","6">>) \/ has(<<" ","6">>)) -> K_fueloil_6
         [] has(<<"g","a","s"," ","l","i","c","u","a","d","o">>) \/ has(<<"g","l","p">>) -> K_glp
         [] has(<<"g","a","s"," ","n","a","t","u","r","a","l">>) -> K_gas_natural
         [] OTHER -> Slug(low)

\* the first entry of an ordered table whose needle is in s, or 0
FirstNeedle(table, s) ==
    LET hits == {i \in DOMAIN table : Contains(s, table[i][1])}
    IN IF hits = {} THEN 0 ELSE CHOOSE i \in hits : \A j \in hits : i <= j

\* norm_key of micm_scraper.py
micm_norm_key(label) ==
    LET k == CollapseSpaces(lower(label))
        i == FirstNeedle(FUEL_KEYS, k)
    IN IF i # 0 THEN FUEL_KEYS[i][2] ELSE Slug(k)

\* normalize_label of micm_scraper.py
normalize_label(raw) ==
    LET low == strip(CollapseSpaces(DropParens(lower(raw))))
        has(x) == Contains(low, x)
        i == FirstNeedle(LABEL_SYNONYMS, low)
    IN IF i # 0 THEN LABEL_SYNONYMS[i][2]
       ELSE IF has(<<"f","u","e","l">>) /\ has(<<"o","i","l">>) /\ has(<<"1">>) /\ has(<<"s">>) THEN L_FuelOil1S
       ELSE IF has(<<"f","u","e","l">>) /\ has(<<"o","i","l">>) /\ has(<<"#","6">>) THEN L_FuelOil6
       ELSE None

\* LABEL_VARIANTS of scraper.py, in insertion order
LABEL_VARIANTS == <<
    [label |-> L_GasolinaPremium, variants |-> <<
        WordB \o Lit(<<"g","a","s","o","l","i","n","a">>) \o Spaces1 \o Lit(<<"p","r","e","m","i","u","m">>) \o WordB >>],
    [label |-> L_GasolinaRegular, variants |-> <<
        WordB \o Lit(<<"g","a","s","o","l","i","n","a">>) \o Spaces1 \o Lit(<<"r","e","g","u","l","a","r">>) \o WordB >>],
    [label |-> L_GasoilPremium, variants |-> <<
        WordB \o Lit(<<"g","a","s","o","i","l">>) \o Spaces1 \o Lit(<<"p","r","e","m","i","u","m">>) \o WordB >>],
    [label |-> L_GasoilRegular, variants |-> <<
        WordB \o Lit(<<"g","a","s","o","i","l">>) \o Spaces1 \o Lit(<<"r","e","g","u","l","a","r">>) \o WordB >>],
    [label |-> L_GasoilOptimo, variants |-> <<
        WordB \o Lit(<<"g","a","s","o","i","l">>) \o Spaces1 \o Opt("o") \o Opt("'") \o Lit(<<"p","t","i","m","o">>) \o WordB,
        WordB \o Lit(<<"g","a","s","o","i","l">>) \o Spaces1 \o Lit(<<"o","p","t","i","m","o">>) \o WordB >>],
    [label |-> L_Avtur, variants |-> <<
        WordB \o Lit(<<"a","v","t","u","r">>) \o WordB >>],
    [label |-> L_Kerosene, variants |-> <<
        WordB \o Lit(<<"k","e","r","o","s">>) \o Cls({"e", "e'"}, 1, 1) \o Lit(<<"n","e">>) \o WordB,
        WordB \o Lit(<<"k","e","r","o","s","e","n","e">>) \o WordB >>],
    [label |-> L_FuelOil6, variants |-> <<
        WordB \o Lit(<<"f","u","e","l">>) \o Spaces0 \o Lit(<<"o","i","l">>) \o Spaces0 \o Opt("#") \o Lit(<<"6">>) \o WordB,
        WordB \o Lit(<<"f","u","e","l","o","i","l">>) \o Spaces0 \o Opt("#") \o Lit(<<"6">>) \o WordB,
        WordB \o Lit(<<"f","u","e","l">>) \o Spaces0 \o Lit(<<"o","i","l">>) \o Spaces0 \o Opt("n") \o Opt("deg")
              \o Spaces0 \o Lit(<<"6">>) \o WordB >>],
    [label |-> L_FuelOil1S, variants |-> <<
        WordB \o Lit(<<"f","u","e","l">>) \o Spaces0 \o Lit(<<"o","i","l">>) \o Spaces0 \o Lit(<<"1">>) \o Spaces0
              \o Opt("%") \o Spaces0 \o Lit(<<"s">>) \o WordB,
        WordB \o Lit(<<"f","u","e","l","o","i","l">>) \o Spaces0 \o Lit(<<"1">>) \o Spaces0
              \o Opt("%") \o Spaces0 \o Lit(<<"s">>) \o WordB >>],
    [label |-> L_GasLicuadodePetroleo, variants |-> <<
        WordB \o Lit(<<"g","a","s">>) \o Spaces1 \o Lit(<<"l","i","c","u","a","d","o">>) \o Spaces1 \o Lit(<<"d","e">>)
              \o Spaces1 \o Lit(<<"p","e","t","r">>) \o Cls({"o", "o'"}, 1, 1) \o Lit(<<"l","e","o">>)
              \o OptGroup(Spaces0 \o Lit(<<"(","g","l","p",")">>)) \o WordB,
        WordB \o Lit(<<"g","l","p">>) \o WordB >>],
    [label |-> L_GasNatural, variants |-> <<
        WordB \o Lit(<<"g","a","s">>) \o Spaces1 \o Lit(<<"n","a","t","u","r","a","l">>) \o WordB >>] >>

\* NUM_PAT of scraper.py: (?:RD\$\s*)?([\d\.\,]+)
NumChars == DigitSet \cup {".", ","}
NUM_PAT == OptGroup(Lit(<<"R","D","$">>) \o Spaces0) \o Cls(NumChars, 1, -1)

\* DEC_RE of micm_scraper.py: ([\d\.\,]+)
DEC_RE == Cls(NumChars, 1, -1)

\* group(1) of a NUM_PAT or DEC_RE match m in t: the digits, dots and commas
\* that end the match
Group1(t, m) ==
    LET g == CHOOSE i \in m.start..(m.end - 1) :
                 /\ \A j \in i..(m.end - 1) : t[j + 1] \in NumChars
                 /\ (i = m.start \/ t[i] \notin NumChars)
    IN Slice(t, g, m.end)

-----------------------------------------------------------------------------
(* Items *)

\* round(val, 2) of a decimal: to the nearest hundredth, a tie to the even one.
\* (Python rounds the binary value, so a decimal tie may fall either way; the
\* tokens of this model have no digit beyond the hundredths that makes one.)
round2(val) ==
    IF val.e <= 2 THEN val
    ELSE LET p == Pow10(val.e - 2)
             q == val.m \div p
             r == val.m % p
         IN IF 2 * r > p \/ (2 * r = p /\ q % 2 = 1) THEN Normal(q + 1, 2)
            ELSE Normal(q, 2)

Item(label, key, price, unit) ==
    [label |-> label, key |-> key, price_dop |-> price, unit |-> unit, change |-> "null"]

\* the "dedup por key" loop: the first item of each key, in order
RECURSIVE dedup(_, _)
dedup(items, seen) ==
    IF items = <<>> THEN <<>>
    ELSE IF Head(items).key \in seen THEN dedup(Tail(items), seen)
    ELSE <<Head(items)>> \o dedup(Tail(items), seen \cup {Head(items).key})

-----------------------------------------------------------------------------
(* scraper.py: the official-price section and its rows *)

HEAD_COLLAPSED == <<"p","r","e","c","i","o","o","f","i","c","i","a","l","a","p","a","g","a","r","p","o","r","e","l","p","u","b","l","i","c","o">>
HEAD_SPACED == <<"p","r","e","c","i","o"," ","o","f","i","c","i","a","l"," ","a"," ","p","a","g","a","r">>
TERMS == << <<"p","a","r","i","d","a","d">>, <<"r","e","f","e","r","e","n","c","i","a">>, <<"n","o","t","a",":">>,
            <<"p","a","r","i","d","a","d"," ","d","e"," ","i","m","p","o","r","t","a","c","i","o","n">>, <<"p","r","e","c","i","o","s"," ","d","e"," ","p","a","r","i","d","a","d">> >>

\* the number windows of parse_items_from_blocks
AfterWindow == 140
BeforeWindow == 100

Min(a, b) == IF a < b THEN a ELSE b
Max(a, b) == IF a > b THEN a ELSE b

\* one page of find_official_public_section: whether the header is on the page
ok_head(raw) ==
    LET norm == lower(strip_accents(raw))
        col == collapse(raw)
    IN \/ Contains(col, HEAD_COLLAPSED)
       \/ /\ Contains(norm, <<"p","r","e","c","i","o">>)
          /\ Contains(norm, <<"o","f","i","c","i","a","l">>)
          /\ Contains(norm, <<"p","u","b","l","i","c","o">>)
          /\ Contains(norm, <<"p","a","g","a","r">>)

RECURSIVE EndIdx(_, _, _, _)
EndIdx(norm, from, k, end) ==
    IF k > Len(TERMS) THEN end
    ELSE LET pos == find(norm, TERMS[k], from)
         IN EndIdx(norm, from, k + 1, IF pos # -1 THEN Min(end, pos) ELSE end)

\* one page of find_official_public_section: the block kept for the page
page_block(raw) ==
    LET norm == lower(strip_accents(raw))
        col == collapse(raw)
        s0 == find(norm, HEAD_SPACED, 0)
        start_idx == IF s0 # -1 THEN s0
                     ELSE IF find(col, HEAD_COLLAPSED, 0) # -1 THEN 0 ELSE -1
        end_idx == EndIdx(norm, Max(start_idx, 0) + 1, 1, Len(raw))
        block == IF start_idx # -1 THEN Slice(raw, start_idx, end_idx) ELSE raw
    IN IF \E i \in DOMAIN LABEL_VARIANTS :
              re_search(LABEL_VARIANTS[i].variants[1], block, TRUE).found
       THEN block ELSE raw

\* find_official_public_section: (page index, block) of each page with the header
\* a locator that takes every page whole, header or not
find_section_whole(page_texts, i) ==
    [k \in DOMAIN page_texts |-> <<k - 1, page_texts[k]>>]
RECURSIVE find_section_from(_, _)
find_section_from(page_texts, i) ==
    IF i > Len(page_texts) THEN <<>>
    ELSE (IF ok_head(page_texts[i]) THEN << <<i - 1, page_block(page_texts[i])>> >> ELSE <<>>)
         \o find_section_from(page_texts, i + 1)
find_official_public_section(page_texts) == find_section_from(page_texts, 1)

\* add() of parse_items_from_blocks: nothing is added when parse_num raises
add(items, label, price) ==
    LET val == parse_num(price)
    IN IF ~val.ok THEN items
       ELSE Append(items, Item(label, norm_key(label), round2(val),
                               IF lower(label) = <<"g","a","s"," ","n","a","t","u","r","a","l">> THEN "m3" ELSE "galon"))

\* NUM_PAT.search(text): the number it captures, if it matches
NoNumber == [found |-> FALSE, text |-> <<>>]
NumberAt(text, m) == IF m.found THEN [found |-> TRUE, text |-> Group1(text, m)] ELSE NoNumber
SearchNumber(text) == NumberAt(text, re_search(NUM_PAT, text, TRUE))
OrElse(a, b) == IF a.found THEN a ELSE b

\* the number near a label match m in chunk: after it, else before it
near_number(chunk, m) ==
    OrElse(SearchNumber(Slice(chunk, m.end, m.end + AfterWindow)),
           SearchNumber(Slice(chunk, Max(0, m.start - BeforeWindow), m.start)))

\* one pattern on one chunk: the number near its first match, if both exist
NumberNear(chunk, m) == IF m.found THEN near_number(chunk, m) ELSE NoNumber
variant_number(chunk, pat) == NumberNear(chunk, re_search(pat, chunk, TRUE))

\* the first (label, variant), in the order of the loops, that found a number
FirstHit(hits) ==
    CHOOSE p \in hits : \A q \in hits : p[1] < q[1] \/ (p[1] = q[1] /\ p[2] <= q[2])
AddHit(items, table, numbers, hits) ==
    IF hits = {} THEN items
    ELSE add(items, table[FirstHit(hits)[1]].label, numbers[FirstHit(hits)].text)
AddFirst(items, table, numbers) ==
    AddHit(items, table, numbers, {p \in DOMAIN numbers : numbers[p].found})
VariantNumbers(chunk, table) ==
    [p \in {q \in (DOMAIN table) \X (1..3) : q[2] \in DOMAIN table[q[1]].variants} |->
        variant_number(chunk, table[p[1]].variants[p[2]])]

\* the loops over LABEL_VARIANTS for one chunk: the first label (and its first
\* variant) that matches with a number near it adds one item and ends the scan
scan_chunk(items, chunk) ==
    AddFirst(items, LABEL_VARIANTS, VariantNumbers(chunk, LABEL_VARIANTS))

\* [ln.strip() for ln in block.splitlines() if ln.strip()]
StrippedLines(block) ==
    LET ls == splitlines(block)
    IN SelectSeq([i \in DOMAIN ls |-> strip(ls[i])], LAMBDA x : x # <<>>)

RECURSIVE scan_lines(_, _, _)
scan_lines(items, lines, i) ==
    IF i > Len(lines) THEN items
    ELSE scan_lines(
             scan_chunk(items,
                        CollapseBlanks(join(<<" ">>, SubSeq(lines, i, Min(i + 2, Len(lines)))))),
             lines, i + 1)

RECURSIVE scan_blocks(_, _)
scan_blocks(items, blocks) ==
    IF blocks = <<>> THEN items
    ELSE scan_blocks(scan_lines(items, StrippedLines(Head(blocks)[2]), 1), Tail(blocks))

parse_items_from_blocks(blocks) == dedup(scan_blocks(<<>>, blocks), {})

-----------------------------------------------------------------------------
(* micm_scraper.py: tables and the "Precio al publico" text block *)

TABLE_HEADER_HINTS == <<
    <<"p","r","e","c","i","o"," ","a","l"," ","p","u'","b","l","i","c","o">>,
    <<"p","r","e","c","i","o"," ","a","l"," ","p","u","b","l","i","c","o">>,
    <<"p","r","e","c","i","o"," ","r","d","$"," ","p","o","r"," ","g","a","l","o'","n">>,
    <<"p","r","e","c","i","o"," ","r","d","$"," ","p","o","r"," ","g","a","l","o","n">>,
    <<"p","r","e","c","i","o"," ","r","d","$"," ","p","o","r"," ","m","^3">>,
    <<"p","r","e","c","i","o"," ","r","d","$"," ","p","o","r"," ","m","3">>,
    <<"p","r","e","c","i","o"," ","a","l"," ","p","u'","b","l","i","c","o"," ","r","d","$">>,
    <<"p","r","e","c","i","o"," ","a","l"," ","p","u","b","l","i","c","o"," ","r","d","$">> >>

\* the length of the text block of parse_prices_from_text
BlockWindow == 4000

\* a list of items, or the exception that ended the call
Returned(items) == [exc |-> FALSE, items |-> items]
Raised == [exc |-> TRUE, items |-> <<>>]

\* find_public_price_column: 1-based index of the first hinted cell, or 0
find_public_price_column(header_row) ==
    LET hits == {i \in DOMAIN header_row :
                    \E h \in DOMAIN TABLE_HEADER_HINTS :
                        Contains(lower(header_row[i]), TABLE_HEADER_HINTS[h])}
    IN IF hits = {} THEN 0 ELSE CHOOSE i \in hits : \A j \in hits : i <= j

\* the product column of a header row ("producto", "combustible", "concepto"),
\* the first column by default; 1-based
label_column(header) ==
    LET hits == {i \in DOMAIN header :
                    LET low == lower(header[i])
                    IN \/ Contains(low, <<"p","r","o","d","u","c","t","o">>)
                       \/ Contains(low, <<"c","o","m","b","u","s","t","i","b","l","e">>)
                       \/ Contains(low, <<"c","o","n","c","e","p","t","o">>)}
    IN IF hits = {} THEN 1 ELSE CHOOSE i \in hits : \A j \in hits : i <= j

\* the item both extraction loops of micm_scraper.py append
micm_unit(label) ==
    IF Contains(lower(label), <<"n","a","t","u","r","a","l">>) THEN "m3" ELSE "galon"
micm_item(label, price) == Item(label, micm_norm_key(label), round2(price), micm_unit(label))

\* the end of one loop pass once the label and the DEC_RE match m in text are
\* known: no label or no number skips it, parse_num may raise
append_price(acc, label, price) ==
    IF ~price.ok THEN Raised ELSE Returned(Append(acc.items, micm_item(label, price)))
append_match(acc, label, text, m) ==
    IF label = None \/ ~m.found THEN acc
    ELSE append_price(acc, label, micm_parse_num(Group1(text, m)))

\* one body row of a table
table_cells(acc, raw_label, raw_price) ==
    IF raw_label = <<>> \/ raw_price = <<>> THEN acc
    ELSE append_match(acc, normalize_label(raw_label), raw_price,
                      re_search(DEC_RE, raw_price, FALSE))
table_row(acc, row, label_col, pub_col) ==
    IF label_col > Len(row) \/ pub_col > Len(row) THEN acc
    ELSE table_cells(acc, strip(row[label_col]), strip(row[pub_col]))

\* the body rows of one table: acc holds the items so far
RECURSIVE table_rows(_, _, _, _)
table_rows(acc, body, label_col, pub_col) ==
    IF acc.exc \/ body = <<>> THEN acc
    ELSE table_rows(table_row(acc, Head(body), label_col, pub_col),
                    Tail(body), label_col, pub_col)

\* one table: c1, c2 the price column found in its first and second row
table_body(acc, tbl, c1, c2) ==
    IF c1 = 0 /\ c2 = 0 THEN acc
    ELSE IF c1 # 0 THEN table_rows(acc, Tail(tbl), label_column(tbl[1]), c1)
    ELSE table_rows(acc, Tail(Tail(tbl)), label_column(tbl[2]), c2)
table_items(acc, tbl) ==
    IF tbl = <<>> THEN acc
    ELSE table_body(acc, tbl, find_public_price_column(tbl[1]),
                    IF Len(tbl) > 1 THEN find_public_price_column(tbl[2]) ELSE 0)

\* parse_prices_from_tables over the tables extract_tables_from_pdf_bytes gives:
\* the rows of the first table that yields any item
RECURSIVE tables_from(_, _)
tables_next(got, rest) ==
    IF got.exc \/ got.items # <<>> THEN got ELSE tables_from(got, rest)
tables_from(acc, tables) ==
    IF acc.exc \/ tables = <<>> THEN acc
    ELSE tables_next(table_items(acc, Head(tables)), Tail(tables))
parse_prices_from_tables(tables) == tables_from(Returned(<<>>), tables)

\* one line of the text block: the label is what precedes the first number
line_label(line, m) ==
    IF ~m.found THEN None
    ELSE normalize_label(Slice(line, 0, find(line, Slice(line, m.start, m.end), 0)))
text_match(acc, line, m) == append_match(acc, line_label(line, m), line, m)
text_line(acc, line) ==
    IF line = <<>> THEN acc ELSE text_match(acc, line, re_search(DEC_RE, line, FALSE))

\* the lines of the text block of parse_prices_from_text
RECURSIVE text_lines(_, _)
text_lines(acc, lines) ==
    IF acc.exc \/ lines = <<>> THEN acc
    ELSE text_lines(text_line(acc, strip(Head(lines))), Tail(lines))

\* the start of the text block: "precio al público", else "precio al publico"
text_start(pdf_text) ==
    LET low == lower(pdf_text)
        s1 == find(low, <<"p","r","e","c","i","o"," ","a","l"," ","p","u'","b","l","i","c","o">>, 0)
    IN IF s1 # -1 THEN s1 ELSE find(low, <<"p","r","e","c","i","o"," ","a","l"," ","p","u","b","l","i","c","o">>, 0)

deduped(got) == IF got.exc THEN got ELSE Returned(dedup(got.items, {}))
text_block(pdf_text, start_idx) ==
    IF start_idx = -1 THEN Returned(<<>>)
    ELSE deduped(text_lines(Returned(<<>>),
                            splitlines(Slice(pdf_text, start_idx, start_idx + BlockWindow))))
parse_prices_from_text(pdf_text) == text_block(pdf_text, text_start(pdf_text))

\* extract_text_from_pdf: the pages joined, blanks collapsed
extract_text(pages) == CollapseBlanks(join(<<"\n">>, pages))

-----------------------------------------------------------------------------
(* The week range.  The date regular expressions are modelled by what they  *)
(* capture: a text holds, in order, its "del ... al ..." mentions, each     *)
(*   [form, d1, m1, d2, m2, y, sep]                                          *)
(* with form "full"  (del d1 de <m1> al d2 de <m2> de y),                    *)
(*           "day"   (del d1 al d2 de <m2> de y),                            *)
(*           "num"   (del d1 al d2/m2/y);                                    *)
(* m1, m2 the month the word names in SPANISH_MONTHS (0: a word that names  *)
(* none; for "num" the number written), and sep " " or "-": what separates  *)
(* the words (the patterns ask for \s between them).                        *)

NoDate == <<0, 0, 0>>

IsLeap(y) == (y % 4 = 0 /\ y % 100 # 0) \/ y % 400 = 0
DaysIn(y, m) ==
    IF m = 2 THEN (IF IsLeap(y) THEN 29 ELSE 28)
    ELSE IF m \in {4, 6, 9, 11} THEN 30 ELSE 31

\* datetime.date(y, m, d) raises ValueError unless the date exists
DateOk(y, m, d) == y \in 1..9999 /\ m \in 1..12 /\ d \in 1..DaysIn(y, m)

\* a parsed week (s, e), NoDate for None, or the ValueError that ended the call
Week(s, e) == [exc |-> FALSE, s |-> s, e |-> e]
WeekRaised == [exc |-> TRUE, s |-> NoDate, e |-> NoDate]
NoWeek == Week(NoDate, NoDate)

\* the first mention of a form among those a \s-separated pattern can match
FirstOf(mentions, forms) ==
    LET hits == {i \in DOMAIN mentions :
                    mentions[i].form \in forms /\ mentions[i].sep = " "}
    IN IF hits = {} THEN 0 ELSE CHOOSE i \in hits : \A j \in hits : i <= j

\* parse_week_from_text of scraper.py: RANGE_RE matches the full form only
parse_week_from_text(mentions) ==
    LET i == FirstOf(mentions, {"full"})
    IN IF i = 0 THEN NoWeek
       ELSE LET w == mentions[i]
            IN IF w.m1 = 0 \/ w.m2 = 0 THEN NoWeek
               ELSE IF DateOk(w.y, w.m1, w.d1) /\ DateOk(w.y, w.m2, w.d2)
               THEN Week(<<w.y, w.m1, w.d1>>, <<w.y, w.m2, w.d2>>)
               ELSE NoWeek

\* parse_week of scraper.py: the text, then the file name, then the link text
Complete(w) == w.s # NoDate /\ w.e # NoDate
FirstComplete(a, b, c) == IF Complete(a) THEN a ELSE IF Complete(b) THEN b ELSE c
parse_week(doc) ==
    FirstComplete(parse_week_from_text(doc.week_text),
                  parse_week_from_text(doc.week_fname),
                  parse_week_from_text(doc.week_link))

\* _parse_spanish_date(fragment, default_year, default_month) for a fragment
\* "d de <month>" (month >= 0 the month named, 0 for no month name) or "d"
\* (month = -1): [exc, date]
DateRes(exc, date) == [exc |-> exc, date |-> date]
parse_spanish_date(d, month, default_year, default_month) ==
    IF month >= 0
    THEN IF month # 0 /\ default_year # 0
         THEN (IF DateOk(default_year, month, d)
               THEN DateRes(FALSE, <<default_year, month, d>>)
               ELSE DateRes(TRUE, NoDate))
         ELSE DateRes(FALSE, NoDate)
    ELSE IF default_year # 0 /\ default_month # 0
         THEN (IF DateOk(default_year, default_month, d)
               THEN DateRes(FALSE, <<default_year, default_month, d>>)
               ELSE DateRes(TRUE, NoDate))
         ELSE DateRes(FALSE, NoDate)

\* one branch of micm's parse_week_from_text: the end date first, then the
\* start date with the end date's month as default; [exc, s, e]
micm_branch(w) ==
    LET end == IF w.form = "num"
               THEN (IF DateOk(w.y, w.m2, w.d2) THEN DateRes(FALSE, <<w.y, w.m2, w.d2>>)
                     ELSE DateRes(TRUE, NoDate))
               ELSE parse_spanish_date(w.d2, w.m2, w.y, 0)
        dm == IF w.form = "num" THEN w.m2
              ELSE IF end.date # NoDate THEN end.date[2] ELSE 0
        start == IF w.form = "full" THEN parse_spanish_date(w.d1, w.m1, w.y, dm)
                 ELSE parse_spanish_date(w.d1, -1, w.y, dm)
    IN IF end.exc \/ start.exc THEN WeekRaised ELSE Week(start.date, end.date)

\* parse_week_from_text of micm_scraper.py: RANGE_PATTERNS in order, each on
\* its first match; a pattern whose dates come out None leaves it to the next
RECURSIVE micm_patterns(_, _)
micm_patterns(mentions, forms) ==
    IF forms = <<>> THEN NoWeek
    ELSE LET i == FirstOf(mentions, {Head(forms)})
         IN IF i = 0 THEN micm_patterns(mentions, Tail(forms))
            ELSE LET r == micm_branch(mentions[i])
                 IN IF r.exc THEN r
                    ELSE IF r.s # NoDate /\ r.e # NoDate THEN r
                    ELSE micm_patterns(mentions, Tail(forms))
micm_parse_week_from_text(mentions) == micm_patterns(mentions, <<"full", "day", "num">>)

\* re.sub(r"[_\-\.]+", " ", fname) on the mentions of a file name: the words
\* come apart, and so do the numbers of a d/m/y date
clean_fname(mentions) ==
    [i \in DOMAIN mentions |->
        IF mentions[i].form = "num" THEN [mentions[i] EXCEPT !.form = "none"]
        ELSE [mentions[i] EXCEPT !.sep = " "]]

\* parse_week of micm_scraper.py: the text, then the link text, then the file
\* name; a ValueError of an earlier source ends the call
Settled(w) == w.exc \/ Complete(w)
FirstSettled(a, b, c) ==
    IF Settled(a) THEN a ELSE IF Settled(b) THEN b ELSE IF Settled(c) THEN c ELSE NoWeek
micm_parse_week(doc) ==
    FirstSettled(micm_parse_week_from_text(doc.week_text),
                 IF doc.week_link # <<>> THEN micm_parse_week_from_text(doc.week_link)
                 ELSE NoWeek,
                 micm_parse_week_from_text(clean_fname(doc.week_fname)))

-----------------------------------------------------------------------------
(* JSON files.  json.dump writes the keys of a dict in insertion order; a   *)
(* file is the list of (key, value) pairs it holds, or ill-formed text.     *)

JsonFile(pairs) == [wellformed |-> TRUE, text |-> pairs]
CorruptFile == [wellformed |-> FALSE, text |-> <<>>]

\* json.dump of one item and of the item list of a payload
ItemJson(it) ==
    << <<"label", it.label>>, <<"key", it.key>>, <<"price_dop", it.price_dop>>,
       <<"unit", it.unit>>, <<"change", it.change>> >>
ItemsJson(items) == [i \in DOMAIN items |-> ItemJson(items[i])]

\* the payload dict of main, as json.dump writes it
Payload(source, updated_at_utc, week, items) ==
    << <<"source", source>>,
       <<"updated_at_utc", updated_at_utc>>,
       <<"week", << <<"start_date", week.s>>, <<"end_date", week.e>> >> >>,
       <<"currency", "DOP">>,
       <<"items", ItemsJson(items)>> >>

\* d.get(key): the value of the key in a list of pairs (callers check HasKey)
HasKey(pairs, key) == \E i \in DOMAIN pairs : pairs[i][1] = key
Get(pairs, key) == pairs[CHOOSE i \in DOMAIN pairs : pairs[i][1] = key][2]

-----------------------------------------------------------------------------
(* The clock.  utcnow() reads the tick; TicksPerDay ticks make a UTC day.   *)

TicksPerDay == 2
MaxTick == 3
MaxRuns == 2

\* utcnow().strftime("%Y-%m-%d") at tick t: the days count from 2025-09-05
DateOf(t) == <<2025, 9, 5 + (t \div TicksPerDay)>>

-----------------------------------------------------------------------------
(* main of both scrapers *)

Scripts == {"scraper", "micm"}

\* what a run works out of the fetched document: [exc, items, week]
Extracted(items, week) == [exc |-> FALSE, items |-> items, week |-> week]
\* a failure taken for a document with nothing in it
ExtractRaised_AsEmpty == [exc |-> FALSE, items |-> <<>>, week |-> NoWeek]
ExtractRaised == [exc |-> TRUE, items |-> <<>>, week |-> NoWeek]

\* main of scraper.py between the download and the payload
block_items(blocks) == IF blocks # <<>> THEN parse_items_from_blocks(blocks) ELSE <<>>
scraper_extract(doc) ==
    Extracted(block_items(find_official_public_section(doc.pages)), parse_week(doc))

\* main of micm_scraper.py between the download and the payload
with_week(x, w) == IF x.exc \/ w.exc THEN ExtractRaised ELSE Extracted(x.items, w)
text_items(t, pages) ==
    IF t.exc \/ t.items # <<>> THEN t ELSE parse_prices_from_text(extract_text(pages))
micm_extract(doc) ==
    with_week(text_items(parse_prices_from_tables(doc.tables), doc.pages),
              micm_parse_week(doc))

-----------------------------------------------------------------------------
(* Documents: what the download and pdfplumber hand to main *)

\* most lines (text) or rows (table) of a generated document body
MaxLines == 2

RECURSIVE SeqsUpTo(_, _)
SeqsUpTo(A, n) ==
    IF n = 0 THEN {<<>>}
    ELSE LET S == SeqsUpTo(A, n - 1)
         IN S \cup {Append(s, c) : s \in {x \in S : Len(x) = n - 1}, c \in A}

Mention(form, d1, m1, d2, m2, y, sep) ==
    [form |-> form, d1 |-> d1, m1 |-> m1, d2 |-> d2, m2 |-> m2, y |-> y, sep |-> sep]

Doc(pages, tables, week_text, week_link, week_fname) ==
    [url |-> "https://micm.gob.do/aviso.pdf", pages |-> pages, tables |-> tables,
     week_text |-> week_text, week_link |-> week_link, week_fname |-> week_fname]

HDR_SCRAPER == <<"P","R","E","C","I","O"," ","O","F","I","C","I","A","L"," ","A"," ","P","A","G","A","R"," ","P","O","R"," ","E","L"," ","P","U","B","L","I","C","O"," ","(","R","D","$","/","G","L",")">>
HDR_MICM == <<"P","r","e","c","i","o"," ","a","l"," ","p","u'","b","l","i","c","o">>
LN_GP1 == <<"G","a","s","o","l","i","n","a"," ","P","r","e","m","i","u","m"," ","2","9","0",".","1","0">>
LN_GP2 == <<"G","a","s","o","l","i","n","a"," ","P","r","e","m","i","u","m"," ","2","9","1",".","0","0">>
LN_GR == <<"G","a","s","o","l","i","n","a"," ","R","e","g","u","l","a","r"," ","2","7","2",".","5","0">>

Headers == {<<>>, HDR_SCRAPER, HDR_MICM}
BodyLines == {LN_GP1, LN_GP2, LN_GR}

\* one page: the header line, if any, and the body lines under it
PageOf(header, body) ==
    join(<<"\n">>, (IF header = <<>> THEN <<>> ELSE <<header>>) \o body)

TextDocs ==
    {Doc(<<PageOf(h, b)>>, <<>>, <<>>, <<>>, <<>>) :
         h \in Headers, b \in SeqsUpTo(BodyLines, MaxLines)}

ROW_HINT == <<<<"P","r","o","d","u","c","t","o">>, <<"P","r","e","c","i","o"," ","a","l"," ","p","u'","b","l","i","c","o"," ","R","D","$">>>>
ROW_NOHINT == <<<<"P","r","o","d","u","c","t","o">>, <<"P","r","e","c","i","o"," ","d","e"," ","p","a","r","i","d","a","d">>>>
ROW_GP1 == <<<<"G","a","s","o","l","i","n","a"," ","P","r","e","m","i","u","m">>, <<"2","9","0",".","1","0">>>>
ROW_GP2 == <<<<"G","a","s","o","l","i","n","a"," ","P","r","e","m","i","u","m">>, <<"2","9","1",".","0","0">>>>
ROW_GR == <<<<"G","a","s","o","l","i","n","a"," ","R","e","g","u","l","a","r">>, <<"R","D","$"," ","2","7","2",".","5","0">>>>

TableDocs ==
    {Doc(<<>>, << <<h>> \o b >>, <<>>, <<>>, <<>>) :
         h \in {ROW_HINT, ROW_NOHINT}, b \in SeqsUpTo({ROW_GP1, ROW_GP2, ROW_GR}, MaxLines)}

\* "del 6 al 12 de septiembre de 2025"
W_DAY_OK == Mention("day", 6, 0, 12, 9, 2025, " ")
\* "del 30 de agosto al 5 de septiembre de 2025"
W_FULL_OK == Mention("full", 30, 8, 5, 9, 2025, " ")
\* "del 24 al 31 de febrero de 2025": no such day
W_DAY_BAD == Mention("day", 24, 0, 31, 2, 2025, " ")
\* "del 30 de febrero al 5 de marzo de 2025": no such day
W_FULL_BAD == Mention("full", 30, 2, 5, 3, 2025, " ")

\* "del 28 al 3 de octubre de 2025": the range crosses a month boundary
W_DAY_CROSS == Mention("day", 28, 0, 3, 10, 2025, " ")
\* "del 28 de diciembre al 3 de enero de 2026": it crosses a year boundary
W_FULL_CROSS == Mention("full", 28, 12, 3, 1, 2026, " ")

WeekMentions == {W_DAY_OK, W_FULL_OK, W_DAY_BAD, W_FULL_BAD, W_DAY_CROSS, W_FULL_CROSS}

WeekDocs ==
    {Doc(<<PageOf(<<>>, b)>>, <<>>, <<w>>, <<>>, <<>>) :
         w \in WeekMentions, b \in {<<>>, <<LN_GP1>>}}

\* "del 6 de septiembre al 12 de septiembre de 2025"
W_FULL_NEXT == Mention("full", 6, 9, 12, 9, 2025, " ")
\* "aviso-del-30-de-agosto-al-5-de-septiembre-de-2025.pdf"
W_FULL_DASHED == Mention("full", 30, 8, 5, 9, 2025, "-")

\* documents whose text holds no week: the anchor text and the file name do
LinkDocs ==
    {Doc(<< <<>> >>, <<>>, <<>>, l, <<f>>) :
         l \in {<<>>, <<W_FULL_NEXT>>}, f \in {W_FULL_OK, W_FULL_DASHED}}

Docs == TextDocs \cup TableDocs \cup WeekDocs \cup LinkDocs

\* the documents the site serves over a sequence of runs
D_EMPTY == Doc(<< <<>> >>, <<>>, <<>>, <<>>, <<>>)
D_PRICES == Doc(<<PageOf(HDR_SCRAPER, <<LN_GP1>>)>>, << <<ROW_HINT, ROW_GR>> >>,
                <<W_DAY_OK>>, <<>>, <<>>)
D_BADWEEK == Doc(<< <<>> >>, <<>>, <<W_DAY_BAD>>, <<>>, <<>>)
RunDocs == {D_EMPTY, D_PRICES, D_BADWEEK}

\* the work of both mains on every document, worked out once
ExtractMemo ==
    [d \in Docs \cup RunDocs |->
        [scraper |-> scraper_extract(d), micm |-> micm_extract(d)]]

extract(script, doc) == ExtractMemo[doc][script]

\* whether the page text or a table carries a header phrase the script knows
HasHeader(script, doc) ==
    IF script = "scraper" THEN \E i \in DOMAIN doc.pages : ok_head(doc.pages[i])
    ELSE \/ text_start(extract_text(doc.pages)) # -1
         \/ \E i \in DOMAIN doc.tables : \E r \in DOMAIN doc.tables[i] :
                r <= 2 /\ find_public_price_column(doc.tables[i][r]) # 0

-----------------------------------------------------------------------------
(* The label matchers on the spellings of each fuel's label *)

\* the spellings of a label that differ from it only in case or in accents
Spellings(canon) ==
    UNION {{x, upper(x), lower(x)} : x \in {canon, strip_accents(canon)}}

\* the fuels each script knows: LABEL_VARIANTS of scraper.py, LABEL_SYNONYMS
\* of micm_scraper.py, by their canonical labels
Fuels(script) ==
    IF script = "scraper" THEN {LABEL_VARIANTS[i].label : i \in DOMAIN LABEL_VARIANTS}
    ELSE {LABEL_SYNONYMS[i][2] : i \in DOMAIN LABEL_SYNONYMS}

NotMatched == [done |-> TRUE, found |-> FALSE, key |-> <<>>]
Matched(key) == [done |-> TRUE, found |-> TRUE, key |-> key]
Pending == [done |-> FALSE, found |-> FALSE, key |-> <<>>]

\* a price that follows the label on its line
SamplePrice == <<" ","2","5","0",".","1","0">>

\* scraper.py: the key of the item the label loop adds for a line "<text> 250.10"
first_key(items) == IF items = <<>> THEN NotMatched ELSE Matched(items[1].key)
scraper_label_key(text) == first_key(scan_chunk(<<>>, text \o SamplePrice))

\* micm_scraper.py: norm_key of the label normalize_label gives, if any
key_of_label(label_norm) ==
    IF label_norm = None THEN NotMatched ELSE Matched(micm_norm_key(label_norm))
micm_label_key(text) == key_of_label(normalize_label(text))

-----------------------------------------------------------------------------
(* The scraper runs: main of scraper.py and of micm_scraper.py *)

Fetches == {"ok", "no_pdf_link", "http_error"}

NoRun ==
    [ran |-> FALSE, script |-> "", fetch |-> "", exc |-> FALSE, doc |-> D_EMPTY,
     items |-> <<>>, week |-> NoWeek, t1 |-> 0, stamp |-> NoDate]

\* a write that leaves a file that exists as it is
WriteFile_KeepExisting(dir, name, content) ==
    [n \in DOMAIN dir \cup {name} |-> IF n \in DOMAIN dir THEN dir[n] ELSE content]

\* a write that clears the directory first
WriteFile_Alone(dir, name, content) == [n \in {name} |-> content]

\* open(path, "w") and json.dump: the file of that name is created or replaced
WriteFile(dir, name, content) ==
    [n \in DOMAIN dir \cup {name} |-> IF n = name THEN content ELSE dir[n]]

\* the name of the history file main writes: the date of its second utcnow()
Stamp(t2) == DateOf(t2)

\* a history file whose payload is built again at the time of the stamp
HistoryContent_Restamped(source, t1, t2, week, items) ==
    JsonFile(Payload(source, t2, week, items))

\* the content main writes to the history file, from the payload's parts
HistoryContent(source, t1, t2, week, items) == JsonFile(Payload(source, t1, week, items))
LatestContent(source, t1, week, items) == JsonFile(Payload(source, t1, week, items))

\* one run of a script: the fetch, the extraction, the two writes.  dt ticks
\* pass between the utcnow() of the payload and the utcnow() of the stamp.
Run(script, dt, fetch) ==
    /\ runs < MaxRuns
    /\ now + dt <= MaxTick
    /\ runs' = runs + 1
    /\ now' = now + dt
    /\ LET x == IF fetch = "ok" THEN extract(script, site) ELSE ExtractRaised
           stamp == Stamp(now + dt)
       IN IF x.exc
          THEN /\ lastRun' = [ran |-> TRUE, script |-> script, fetch |-> fetch, exc |-> TRUE,
                              doc |-> site, items |-> <<>>, week |-> NoWeek, t1 |-> now,
                              stamp |-> NoDate]
               /\ UNCHANGED <<latest, history, log>>
          ELSE /\ lastRun' = [ran |-> TRUE, script |-> script, fetch |-> fetch, exc |-> FALSE,
                              doc |-> site, items |-> x.items, week |-> x.week, t1 |-> now,
                              stamp |-> stamp]
               /\ latest' = <<LatestContent(site.url, now, x.week, x.items)>>
               /\ history' = WriteFile(history, stamp,
                                       HistoryContent(site.url, now, now + dt, x.week, x.items))
               /\ log' = Append(log, [done |-> now + dt,
                                      payload |-> Payload(site.url, now, x.week, x.items)])
    /\ UNCHANGED <<site, numVars, labelVars, trendVars>>

\* the ministry publishes another document
Publish(d) ==
    /\ site # d
    /\ site' = d
    /\ UNCHANGED <<now, latest, history, log, lastRun, runs, numVars, labelVars, trendVars>>

\* time passes
Tick ==
    /\ now < MaxTick
    /\ now' = now + 1
    /\ UNCHANGED <<site, latest, history, log, lastRun, runs, numVars, labelVars, trendVars>>

IdleLabel == labelIn = [fuel |-> <<>>, text |-> <<>>] /\ labelSrc = "" /\ labelKey = Pending
IdleNum == tok = <<>> /\ num = NotRun /\ numSrc = "scraper"
IdleRun ==
    /\ now = 0 /\ site = D_EMPTY /\ latest = <<>> /\ history = <<>> /\ log = <<>>
    /\ lastRun = NoRun /\ runs = 0
IdleTrend == trend = <<>> /\ trendMin = <<>> /\ lastBuild = NoBuild

\* SpecRun: any sequence of runs, publications and ticks from an empty data directory
InitRun ==
    /\ IdleNum /\ IdleLabel /\ IdleTrend
    /\ now = 0 /\ site \in RunDocs /\ latest = <<>> /\ history = <<>> /\ log = <<>>
    /\ lastRun = NoRun /\ runs = 0

NextRun ==
    \/ \E s \in Scripts, dt \in {0, 1}, f \in Fetches : Run(s, dt, f)
    \/ \E d \in RunDocs : Publish(d)
    \/ Tick

SpecRun == InitRun /\ [][NextRun]_vars

\* SpecParse: one run on any document of Docs
InitParse ==
    /\ IdleNum /\ IdleLabel /\ IdleTrend
    /\ now = 0 /\ site \in Docs /\ latest = <<>> /\ history = <<>> /\ log = <<>>
    /\ lastRun = NoRun /\ runs = 0

NextParse == \E s \in Scripts, f \in Fetches : runs = 0 /\ Run(s, 0, f)

SpecParse == InitParse /\ [][NextParse]_vars

-----------------------------------------------------------------------------
(* SpecLabel: one call of a script's label matcher on one spelling *)

InitLabel ==
    /\ labelSrc \in Scripts
    /\ labelIn \in UNION {{[fuel |-> f, text |-> t] : t \in Spellings(f)} :
                              f \in Fuels("scraper") \cup Fuels("micm")}
    /\ labelIn.fuel \in Fuels(labelSrc)
    /\ labelKey = Pending
    /\ IdleNum /\ IdleRun /\ IdleTrend

MatchLabel ==
    /\ ~labelKey.done
    /\ labelKey' = IF labelSrc = "scraper" THEN scraper_label_key(labelIn.text)
                   ELSE micm_label_key(labelIn.text)
    /\ UNCHANGED <<labelIn, labelSrc, numVars, runVars, trendVars>>

NextLabel == MatchLabel

SpecLabel == InitLabel /\ [][NextLabel]_vars

-----------------------------------------------------------------------------
(* build_trend.py and build_trend_min.py.  (build_trend.py is kept in the   *)
(* repository inside a shell here-document, lines 1 and 78; the program is  *)
(* the Python text between them.)                                            *)

\* JSON null where a number may stand
null == [ok |-> FALSE, m |-> 0, e |-> 0]

\* d.get(key, default)
GetOr(pairs, key, default) == IF HasKey(pairs, key) THEN Get(pairs, key) ELSE default

\* the order of "YYYY-MM-DD" strings, on the dates they write
DateLess(a, b) ==
    \/ a[1] < b[1]
    \/ a[1] = b[1] /\ a[2] < b[2]
    \/ a[1] = b[1] /\ a[2] = b[2] /\ a[3] < b[3]

\* sorted(glob.glob(HIST_DIR/*.json)): the file names in ascending order
sorted_names(dir) ==
    [i \in 1..Cardinality(DOMAIN dir) |->
        CHOOSE d \in DOMAIN dir : Cardinality({x \in DOMAIN dir : DateLess(x, d)}) = i - 1]

\* the date of an entry: the bulletin's end_date, else the file name
entry_date(name, end_date) == IF end_date = NoDate THEN name ELSE end_date
entry(name, doc) ==
    [date |-> entry_date(name, GetOr(GetOr(doc, "week", <<>>), "end_date", NoDate)),
     items |-> GetOr(doc, "items", <<>>)]

\* load_history of build_trend.py: a file json.load cannot parse is skipped
readable_entries(dir, names) ==
    [i \in DOMAIN names |-> entry(names[i], dir[names[i]].text)]
readable_names(dir, names) == SelectSeq(names, LAMBDA n : dir[n].wellformed)
load_history(dir) == readable_entries(dir, readable_names(dir, sorted_names(dir)))

\* the (key, date, price) of the items of one entry that have a key and a price
item_rows(date, items) ==
    SelectSeq([i \in DOMAIN items |->
                  [key |-> GetOr(items[i], "key", None), date |-> date,
                   price |-> GetOr(items[i], "price_dop", null)]],
              LAMBDA r : r.key # None /\ r.price # null)
RECURSIVE all_rows(_)
all_rows(entries) ==
    IF entries = <<>> THEN <<>>
    ELSE (IF Head(entries).date = NoDate THEN <<>>
          ELSE item_rows(Head(entries).date, Head(entries).items))
         \o all_rows(Tail(entries))

\* the keys of a dict filled by setdefault, in insertion order
key_order(rows) ==
    LET firsts == SelectSeq([i \in DOMAIN rows |-> i],
                            LAMBDA i : \A j \in 1..(i - 1) : rows[j].key # rows[i].key)
    IN [k \in DOMAIN firsts |-> rows[firsts[k]].key]
series_of(rows, key) == SelectSeq(rows, LAMBDA r : r.key = key)

\* a sort that puts the later of two entries with equal dates first
sort_by_date_ties_reversed(s) ==
    [p \in DOMAIN s |->
        s[CHOOSE i \in DOMAIN s :
              Cardinality({j \in DOMAIN s :
                              \/ DateLess(s[j].date, s[i].date)
                              \/ s[j].date = s[i].date /\ j > i}) = p - 1]]

\* list.sort(key=lambda x: x["date"]): ascending, equal dates keep their order
sort_by_date(s) ==
    [p \in DOMAIN s |->
        s[CHOOSE i \in DOMAIN s :
              Cardinality({j \in DOMAIN s :
                              \/ DateLess(s[j].date, s[i].date)
                              \/ s[j].date = s[i].date /\ j < i}) = p - 1]]

\* decimals: the numerator of x over 10^e, for e >= x.e
Units(x, e) == x.m * Pow10(e - x.e)
\* n / d for d > 0 to the nearest integer, a tie to the even one
RoundDiv(n, d) ==
    IF 2 * (n % d) > d \/ (2 * (n % d) = d /\ (n \div d) % 2 = 1) THEN (n \div d) + 1
    ELSE n \div d
\* round(m / 10^e, k)
round_to(m, e, k) == IF e <= k THEN Normal(m, e) ELSE Normal(RoundDiv(m, Pow10(e - k)), k)

\* round(cur - prev, 4)
delta_abs_reversed(cur, prev) ==
    round_to(Units(prev, Max(cur.e, prev.e)) - Units(cur, Max(cur.e, prev.e)),
             Max(cur.e, prev.e), 4)
delta_abs(cur, prev) ==
    round_to(Units(cur, Max(cur.e, prev.e)) - Units(prev, Max(cur.e, prev.e)),
             Max(cur.e, prev.e), 4)
\* round(d / prev * 100.0, 4) if prev else None, for a price prev >= 0
delta_pct(cur, prev) ==
    IF prev.m = 0 THEN null
    ELSE Normal(RoundDiv((Units(cur, Max(cur.e, prev.e)) - Units(prev, Max(cur.e, prev.e)))
                             * 100 * Pow10(4),
                         Units(prev, Max(cur.e, prev.e))), 4)

TrendRow(date, price, da, dp) ==
    << <<"date", date>>, <<"price_dop", price>>, <<"delta_abs", da>>, <<"delta_pct", dp>> >>
with_delta(s) ==
    [i \in DOMAIN s |->
        IF i = 1 THEN TrendRow(s[i].date, s[i].price, null, null)
        ELSE TrendRow(s[i].date, s[i].price,
                      delta_abs(s[i].price, s[i - 1].price),
                      delta_pct(s[i].price, s[i - 1].price))]

\* build_trend: the series of each key, as json.dump writes the dict
trend_of(rows, keys) ==
    [k \in DOMAIN keys |-> <<keys[k], with_delta(sort_by_date(series_of(rows, keys[k])))>>]
build_rows(rows) == trend_of(rows, key_order(rows))
build_trend(entries) == build_rows(all_rows(entries))

\* the order of str on the characters of a key
AsciiOrder == Digits \o <<"_">> \o SubSeq(LowerAZ, 1, 26)
CharRank(c) == CHOOSE i \in DOMAIN AsciiOrder : AsciiOrder[i] = c
StrLess(a, b) ==
    \E i \in 1..(Min(Len(a), Len(b)) + 1) :
        /\ \A j \in 1..(i - 1) : a[j] = b[j]
        /\ \/ i = Len(a) + 1 /\ i <= Len(b)
           \/ i <= Len(a) /\ i <= Len(b) /\ CharRank(a[i]) < CharRank(b[i])
\* sorted(trend.keys())
sorted_keys(series) ==
    [p \in DOMAIN series |->
        series[CHOOSE i \in DOMAIN series :
                   Cardinality({j \in DOMAIN series : StrLess(series[j][1], series[i][1])})
                       = p - 1][1]]

\* the dict main dumps to trend.json and to trend_min.json
trend_out(updated_at_utc, series) ==
    << <<"updated_at_utc", updated_at_utc>>,
       <<"currency", "DOP">>,
       <<"series", series>>,
       <<"keys", sorted_keys(series)>> >>

\* load_history of build_trend_min.py: json.load is not guarded, so a file it
\* cannot parse ends the run; [exc, rows]
all_names(dir, names) == [i \in DOMAIN names |-> entry(names[i], dir[names[i]].text)]
min_load_history(dir) ==
    IF \E n \in DOMAIN dir : ~dir[n].wellformed THEN [exc |-> TRUE, rows |-> <<>>]
    ELSE [exc |-> FALSE, rows |-> all_rows(all_names(dir, sorted_names(dir)))]

\* int(round(price))
round_int(price) == Normal(RoundDiv(price.m, Pow10(price.e)), 0)
MinRow(date, price) == << <<"date", date>>, <<"price_dop", price>> >>
min_rows(s) == [i \in DOMAIN s |-> MinRow(s[i].date, round_int(s[i].price))]
min_trend_of(rows, keys) ==
    [k \in DOMAIN keys |-> <<keys[k], min_rows(sort_by_date(series_of(rows, keys[k])))>>]
min_series(rows) == min_trend_of(rows, key_order(rows))

\* most trend builds in a behaviour
MaxBuilds == 2

\* main of build_trend.py
BuildTrend ==
    /\ lastBuild.n < MaxBuilds
    /\ trend' = <<JsonFile(trend_out(now, build_trend(load_history(history))))>>
    /\ lastBuild' = [script |-> "build_trend", exc |-> FALSE, n |-> lastBuild.n + 1]
    /\ UNCHANGED <<trendMin, numVars, labelVars, runVars>>

\* main of build_trend_min.py
MinWrite(loaded) ==
    IF loaded.exc THEN trendMin' = trendMin
    ELSE trendMin' = <<JsonFile(trend_out(now, min_series(loaded.rows)))>>
BuildTrendMin ==
    /\ lastBuild.n < MaxBuilds
    /\ MinWrite(min_load_history(history))
    /\ lastBuild' = [script |-> "build_trend_min",
                     exc |-> \E n \in DOMAIN history : ~history[n].wellformed,
                     n |-> lastBuild.n + 1]
    /\ UNCHANGED <<trend, numVars, labelVars, runVars>>

-----------------------------------------------------------------------------
(* SpecTrend: the trend builders over a history directory *)

TrendPrices == {Normal(0, 0), Normal(100, 0), Normal(110, 0)}
TrendItem(key, price) ==
    Item(IF key = K_glp THEN L_GasLicuadodePetroleo ELSE L_GasolinaPremium, key, price, "galon")
TrendItemLists ==
    {<<>>}
    \cup {<<TrendItem(k, p)>> : k \in {K_gasolina_premium, K_glp}, p \in TrendPrices}
    \cup {<<TrendItem(K_gasolina_premium, Normal(100, 0)), TrendItem(K_glp, Normal(100, 0))>>,
          <<TrendItem(K_gasolina_premium, Normal(100, 0)),
            TrendItem(K_gasolina_premium, Normal(110, 0))>>}
TrendWeeks == {NoWeek, Week(<<2025, 9, 6>>, <<2025, 9, 12>>)}
TrendFiles ==
    {CorruptFile}
    \cup {JsonFile(Payload("https://micm.gob.do/aviso.pdf", 0, w, items)) :
              w \in TrendWeeks, items \in TrendItemLists}
TrendNames == {<<2025, 9, 5>>, <<2025, 9, 6>>}
TrendDirs == UNION {[S -> TrendFiles] : S \in SUBSET TrendNames}

InitTrend ==
    /\ IdleNum /\ IdleLabel /\ IdleTrend
    /\ now = 0 /\ site = D_EMPTY /\ latest = <<>> /\ log = <<>>
    /\ lastRun = NoRun /\ runs = 0
    /\ history \in TrendDirs

NextTrend ==
    \/ BuildTrend
    \/ BuildTrendMin
    \/ Tick

SpecTrend == InitTrend /\ [][NextTrend]_vars

-----------------------------------------------------------------------------
(* SpecNum: parse_num applied to numeric tokens *)

\* the characters NUM_PAT and DEC_RE capture: [\d\.\,]
TokAlphabet == {"1", "5", ".", ","}

Tok_290_10  == <<"2","9","0",".","1","0">>
Tok_290c10  == <<"2","9","0",",","1","0">>
Tok_1_234c56 == <<"1",".","2","3","4",",","5","6">>
Tok_6_85_   == <<"6",".","8","5",".">>

\* the tokens of the specification's examples
SpecTokens == {Tok_290_10, Tok_290c10, Tok_1_234c56, Tok_6_85_}

Tokens == (SeqsUpTo(TokAlphabet, MaxTokLen) \ {<<>>}) \cup SpecTokens

InitNum ==
    /\ tok \in Tokens
    /\ numSrc \in {"scraper", "micm"}
    /\ num = NotRun
    /\ IdleLabel /\ IdleRun /\ IdleTrend

ParseNum ==
    /\ num = NotRun
    /\ num' = IF numSrc = "scraper" THEN parse_num(tok) ELSE micm_parse_num(tok)
    /\ UNCHANGED <<tok, numSrc, labelVars, runVars, trendVars>>

NextNum == ParseNum

SpecNum == InitNum /\ [][NextNum]_vars

-----------------------------------------------------------------------------
(* parse_num on the specification's examples (SpecNum) *)

\* C3: parse_num maps each example token to its decimal value: "290.10" and
\* "290,10" to 290.10, "1.234,56" to 1234.56 and "6.85." (a trailing dot) to 6.85
C3_ParseNumExamples ==
    num # NotRun =>
        /\ tok = Tok_290_10 => num = Normal(29010, 2)
        /\ tok = Tok_290c10 => num = Normal(29010, 2)
        /\ tok = Tok_1_234c56 => num = Normal(123456, 2)
        /\ tok = Tok_6_85_ => num = Normal(685, 2)

-----------------------------------------------------------------------------
(* Spellings of the labels (SpecLabel) *)

\* the key a script gives the canonical spelling of a fuel's label
CanonicalKey(script, fuel) ==
    IF script = "scraper" THEN norm_key(fuel) ELSE micm_norm_key(fuel)

\* C4: every spelling of a fuel's label that differs only in case or accents
\* is recognized, and gets the key of the canonical spelling
C4_SpellingsSameKey ==
    labelKey.done =>
        /\ labelKey.found
        /\ labelKey.key = CanonicalKey(labelSrc, labelIn.fuel)

-----------------------------------------------------------------------------
(* One run on any document (SpecParse) *)

\* the items of a bulletin file, as the pairs json.dump wrote
FileItems(file) == Get(file.text, "items")
KeyOfJson(item) == Get(item, "key")

\* C1: a fetched document in which the script recognizes no section header
\* yields a bulletin with items = [], and the run raises no exception
C1_NoHeaderNoItems ==
    (lastRun.ran /\ lastRun.fetch = "ok" /\ ~HasHeader(lastRun.script, lastRun.doc)) =>
        /\ ~lastRun.exc
        /\ latest # <<>>
        /\ FileItems(latest[1]) = <<>>

\* C10: the items of every bulletin a scraper wrote hold at most one item per
\* canonical key
C10_OneItemPerKey ==
    latest # <<>> =>
        \A i, j \in DOMAIN FileItems(latest[1]) :
            KeyOfJson(FileItems(latest[1])[i]) = KeyOfJson(FileItems(latest[1])[j]) => i = j

-----------------------------------------------------------------------------
(* Sequences of runs (SpecRun) *)

\* the completed runs whose UTC date of completion is d
RunsOn(d) == {i \in DOMAIN log : DateOf(log[i].done) = d}
LastRunOn(d) == CHOOSE i \in RunsOn(d) : \A j \in RunsOn(d) : j <= i

\* C5: after any sequence of completed runs, latest.json holds the payload of
\* the most recent run, and data/history holds exactly one file per UTC run
\* date, whose content is the payload of the last run completed on that date
C5_LatestAndHistory ==
    /\ log = <<>> => latest = <<>>
    /\ log # <<>> => latest = <<JsonFile(log[Len(log)].payload)>>
    /\ DOMAIN history = {DateOf(log[i].done) : i \in DOMAIN log}
    /\ \A d \in DOMAIN history : history[d] = JsonFile(log[LastRunOn(d)].payload)

\* two runs completed on one date with different payloads: the second replaced
\* the file of the first
C5_SameDayOverwrite ==
    /\ Len(log) = 2
    /\ DateOf(log[1].done) = DateOf(log[2].done)
    /\ log[1].payload # log[2].payload
    /\ Cardinality(DOMAIN history) = 1

\* C6, as the code has it: a history file stays in the directory, and no run
\* completed on another UTC date changes its content
C6_OtherDaysUntouched ==
    [][\A d \in DOMAIN history :
           /\ d \in DOMAIN history'
           /\ d # DateOf(now') => history'[d] = history[d]]_vars

\* a run on a second date wrote its file next to the file of the first date,
\* which still holds the first run's payload
C6_TwoDates ==
    /\ Len(log) = 2
    /\ Cardinality(DOMAIN history) = 2
    /\ history[DateOf(log[1].done)] = JsonFile(log[1].payload)

\* C6, as stated: a history file is immutable: no later run changes or
\* replaces the content of a file once written
C6_Immutable ==
    [][\A d \in DOMAIN history : d \in DOMAIN history' /\ history'[d] = history[d]]_vars

\* C7: in every completed run, the content written to latest.json and the
\* content written to the run's history file are identical
C7_SamePayloadTwice ==
    (lastRun.ran /\ ~lastRun.exc) =>
        /\ latest # <<>>
        /\ lastRun.stamp \in DOMAIN history
        /\ latest[1] = history[lastRun.stamp]

\* a completed run with items during which the UTC date changed between the
\* payload's utcnow() and the history stamp's
C7_RunAcrossMidnight ==
    /\ lastRun.ran /\ ~lastRun.exc
    /\ lastRun.items # <<>>
    /\ DateOf(lastRun.t1) # lastRun.stamp

-----------------------------------------------------------------------------
(* The trend builders (SpecTrend) *)

SeriesOf(file) == Get(file.text, "series")
\* a price in pesos (the prices of TrendPrices are whole pesos)
Pesos(p) == Units(p, 0)
\* a delta in ten-thousandths
TenThousandths(x) == Units(x, 4)

\* what the claims say of row i >= 2 of a series: delta_abs is the price
\* minus the price before it
AbsIsDifference(rows, i) ==
    /\ Get(rows[i], "delta_abs") # null
    /\ TenThousandths(Get(rows[i], "delta_abs"))
           = (Pesos(Get(rows[i], "price_dop")) - Pesos(Get(rows[i - 1], "price_dop"))) * 10000

\* delta_pct times the previous price, less 100 times the difference, in
\* units of 10^-4: zero when delta_pct is the exact quotient
PctError(rows, i) ==
    TenThousandths(Get(rows[i], "delta_pct")) * Pesos(Get(rows[i - 1], "price_dop"))
        - (Pesos(Get(rows[i], "price_dop")) - Pesos(Get(rows[i - 1], "price_dop"))) * 1000000

PctIsNullAtZero(rows, i) ==
    Get(rows[i - 1], "price_dop").m = 0 <=> Get(rows[i], "delta_pct") = null

FirstIsNull(rows) ==
    rows # <<>> => Get(rows[1], "delta_abs") = null /\ Get(rows[1], "delta_pct") = null

\* C2, as the code has it: in every series of trend.json the first entry has
\* null deltas; a later entry has delta_abs = its price minus the previous
\* price, and delta_pct = null when the previous price is zero, else
\* delta_abs / previous price * 100 rounded to 4 decimal places
C2_DeltasRounded ==
    trend # <<>> =>
        \A s \in DOMAIN SeriesOf(trend[1]) :
            LET rows == SeriesOf(trend[1])[s][2]
            IN /\ FirstIsNull(rows)
               /\ \A i \in 2..Len(rows) :
                      /\ AbsIsDifference(rows, i)
                      /\ PctIsNullAtZero(rows, i)
                      /\ Get(rows[i], "delta_pct") # null =>
                             /\ 2 * PctError(rows, i) <= Pesos(Get(rows[i - 1], "price_dop"))
                             /\ -2 * PctError(rows, i) <= Pesos(Get(rows[i - 1], "price_dop"))

\* trend.json holds a series with a later entry whose percentage is written
\* and is not the exact quotient (110 then 100: -9.0909)
C2_RoundedPercentWritten ==
    /\ trend # <<>>
    /\ \E s \in DOMAIN SeriesOf(trend[1]) : \E i \in 2..Len(SeriesOf(trend[1])[s][2]) :
           /\ Get(SeriesOf(trend[1])[s][2][i], "delta_pct") # null
           /\ PctError(SeriesOf(trend[1])[s][2], i) # 0

\* C2, as stated: ... and delta_pct = delta_abs / previous price * 100, null
\* when the previous price is zero
C2_DeltasExact ==
    trend # <<>> =>
        \A s \in DOMAIN SeriesOf(trend[1]) :
            LET rows == SeriesOf(trend[1])[s][2]
            IN /\ FirstIsNull(rows)
               /\ \A i \in 2..Len(rows) :
                      /\ AbsIsDifference(rows, i)
                      /\ PctIsNullAtZero(rows, i)
                      /\ Get(rows[i], "delta_pct") # null => PctError(rows, i) = 0

\* C8: a run of build_trend.py that follows another run of it (the history
\* directory does not change in between) leaves trend.json as the first wrote it
C8_TrendIdempotent ==
    [][(/\ lastBuild.script = "build_trend"
        /\ lastBuild'.script = "build_trend"
        /\ lastBuild'.n = lastBuild.n + 1
        /\ history' = history) => trend' = trend]_vars

\* the items with a key and a price in the history files json.load can parse
ReadableRows(dir) ==
    Cardinality(UNION {{<<n, i>> : i \in DOMAIN Get(dir[n].text, "items")} :
                           n \in {x \in DOMAIN dir : dir[x].wellformed}})
WrittenRows(file) ==
    Cardinality(UNION {{<<s, i>> : i \in DOMAIN SeriesOf(file)[s][2]} :
                           s \in DOMAIN SeriesOf(file)})

\* C9: a history file that cannot be parsed is skipped and the build goes on:
\* trend.json, and likewise trend_min.json, is written with the entries of
\* every readable file
C9_UnreadableSkipped ==
    lastBuild.n > 0 =>
        /\ ~lastBuild.exc
        /\ lastBuild.script = "build_trend" =>
               trend # <<>> /\ WrittenRows(trend[1]) = ReadableRows(history)
        /\ lastBuild.script = "build_trend_min" =>
               trendMin # <<>> /\ WrittenRows(trendMin[1]) = ReadableRows(history)

\* the (date, price) of the entries of a series as written
Written(rows) == [i \in DOMAIN rows |-> <<Get(rows[i], "date"), Get(rows[i], "price_dop")>>]
\* the (date, price) of the items of a key in the readable history files, in
\* file-name order and, within a file, in item order
DatedPrices(s) == [i \in DOMAIN s |-> <<s[i].date, s[i].price>>]
DatedInts(s) == [i \in DOMAIN s |-> <<s[i].date, round_int(s[i].price)>>]
Loaded(dir, key) == DatedPrices(series_of(all_rows(load_history(dir)), key))
LoadedMin(dir, key) == DatedInts(series_of(all_rows(load_history(dir)), key))
OnDate(s, d) == SelectSeq(s, LAMBDA r : r[1] = d)
DateOrdered(s) == \A i \in 1..(Len(s) - 1) : ~DateLess(s[i + 1][1], s[i][1])
\* w holds every entry of l, in date order, those of one date in the order of l
StableByDate(w, l) ==
    /\ Len(w) = Len(l)
    /\ DateOrdered(w)
    /\ \A i \in DOMAIN l : OnDate(w, l[i][1]) = OnDate(l, l[i][1])

\* C11: every series of trend.json and of trend_min.json is in non-decreasing
\* date order (the date is the bulletin's end_date, else the file name), holds
\* every entry of its key, and keeps entries of equal dates in file-name order
C11_SeriesInDateOrder ==
    /\ trend # <<>> =>
           \A s \in DOMAIN SeriesOf(trend[1]) :
               StableByDate(Written(SeriesOf(trend[1])[s][2]),
                            Loaded(history, SeriesOf(trend[1])[s][1]))
    /\ trendMin # <<>> =>
           \A s \in DOMAIN SeriesOf(trendMin[1]) :
               StableByDate(Written(SeriesOf(trendMin[1])[s][2]),
                            LoadedMin(history, SeriesOf(trendMin[1])[s][1]))

\* trend.json holds a series the sort has reordered (a file named for a later
\* day whose bulletin has no week comes first) in which two entries of one
\* date, with different prices, stand in file order
MovedWithTies(w, l) ==
    /\ w # l
    /\ \E i, j \in DOMAIN w : i < j /\ w[i][1] = w[j][1] /\ w[i][2] # w[j][2]
C11_ReorderedWithEqualDates ==
    /\ trend # <<>>
    /\ \E s \in DOMAIN SeriesOf(trend[1]) :
           MovedWithTies(Written(SeriesOf(trend[1])[s][2]),
                         Loaded(history, SeriesOf(trend[1])[s][1]))


\* C12: a run whose fetch fails (no document link on the listing page, or an
\* HTTP error on the listing or the document) raises on its one attempt and
\* leaves latest.json and every history file as they were
C12_FailedFetchWritesNothing ==
    [][(runs' = runs + 1 /\ lastRun'.fetch # "ok") =>
           /\ lastRun'.exc
           /\ latest' = latest
           /\ history' = history]_vars

\* a run whose fetch failed, after a run that had written both files
C12_FailedAfterWritten ==
    /\ lastRun.ran /\ lastRun.fetch # "ok"
    /\ runs = 2
    /\ latest # <<>> /\ history # <<>>

\* a page of the document holds a line of a known fuel label and its price
PricedLabel(doc) ==
    \E i \in DOMAIN doc.pages : \E ln \in BodyLines : Contains(doc.pages[i], ln)
\* a completed run on a fetched document in which the script finds no header
HeaderlessRun ==
    /\ lastRun.ran /\ lastRun.fetch = "ok" /\ ~lastRun.exc
    /\ ~HasHeader(lastRun.script, lastRun.doc)

\* C13, as the code has it: when the header is not found the document is not
\* scanned: the run, if it completes, writes a bulletin with no items, whatever
\* labels and prices the document holds
C13_HeaderlessYieldsNothing ==
    HeaderlessRun => latest # <<>> /\ FileItems(latest[1]) = <<>>

\* a completed run on a header-less document that holds a label with its price
C13_HeaderlessWithPrices ==
    /\ HeaderlessRun
    /\ PricedLabel(lastRun.doc)
    /\ latest # <<>> /\ FileItems(latest[1]) = <<>>

\* C13, as stated: when the header is not found the whole document is scanned,
\* so the labels with adjacent prices of a header-less document become items
C13_HeaderlessFallsBack ==
    (HeaderlessRun /\ PricedLabel(lastRun.doc)) =>
        latest # <<>> /\ FileItems(latest[1]) # <<>>

\* the week a script's parse_week_from_text reads in a source (the file name
\* as the script hands it over: micm_scraper.py cleans it first)
WeekIn(script, mentions) ==
    IF script = "scraper" THEN parse_week_from_text(mentions)
    ELSE micm_parse_week_from_text(mentions)
WeekInName(script, mentions) ==
    IF script = "scraper" THEN parse_week_from_text(mentions)
    ELSE micm_parse_week_from_text(clean_fname(mentions))
WeekJson(file) == Get(file.text, "week")
WrittenWeek(file) ==
    Week(Get(WeekJson(file), "start_date"), Get(WeekJson(file), "end_date"))
\* the document text holds no week, the anchor text and the file name hold
\* different weeks the script can parse
AnchorAndNameDiffer(script, doc) ==
    /\ ~Complete(WeekIn(script, doc.week_text))
    /\ Complete(WeekIn(script, doc.week_link))
    /\ Complete(WeekInName(script, doc.week_fname))
    /\ WeekIn(script, doc.week_link) # WeekInName(script, doc.week_fname)

\* C14: when the document text holds no week and the anchor text and the file
\* name hold different parsable weeks, the bulletin carries the anchor text's
\* week, in scraper.py and in micm_scraper.py
C14_AnchorBeforeFilename ==
    (lastRun.ran /\ lastRun.fetch = "ok"
       /\ AnchorAndNameDiffer(lastRun.script, lastRun.doc)) =>
        /\ latest # <<>>
        /\ WrittenWeek(latest[1]) = WeekIn(lastRun.script, lastRun.doc.week_link)

\* the fuel and the price a body line prints
LineKey(ln) == IF ln = LN_GR THEN K_gasolina_regular ELSE K_gasolina_premium
LinePrice(ln) ==
    IF ln = LN_GR THEN Normal(27250, 2)
    ELSE IF ln = LN_GP1 THEN Normal(29010, 2) ELSE Normal(29100, 2)
\* the bodies of label-and-price lines in which no fuel comes twice
OneLinePerFuel(b) == \A i, j \in DOMAIN b : LineKey(b[i]) = LineKey(b[j]) => i = j
OfficialBlocks ==
    {b \in SeqsUpTo(BodyLines, MaxLines) : b # <<>> /\ OneLinePerFuel(b)}
KeysAndPrices(items) ==
    {<<Get(items[i], "key"), Get(items[i], "price_dop")>> : i \in DOMAIN items}
LinesOf(b) == {<<LineKey(b[i]), LinePrice(b[i])>> : i \in DOMAIN b}
ItemPerLine(items, b) == Len(items) = Len(b) /\ KeysAndPrices(items) = LinesOf(b)

\* C15: scraper.py on a page whose official-price block has, under the header,
\* only lines of one known fuel label and its price: the bulletin holds exactly
\* one item per fuel of the block, with the price of the fuel's own line, in
\* whatever order the lines come
C15_OneItemPerLine ==
    \A b \in OfficialBlocks :
        (lastRun.ran /\ lastRun.fetch = "ok" /\ lastRun.script = "scraper"
           /\ lastRun.doc = Doc(<<PageOf(HDR_SCRAPER, b)>>, <<>>, <<>>, <<>>, <<>>)) =>
            latest # <<>> /\ ItemPerLine(FileItems(latest[1]), b)

\* a week range is well-formed: no dates, or two dates with the start not
\* after the end
WellFormedWeek(w) ==
    \/ w.s = NoDate /\ w.e = NoDate
    \/ w.s # NoDate /\ w.e # NoDate /\ ~DateLess(w.e, w.s)

\* C16: the week of every bulletin written is well-formed, whatever range the
\* text names, ranges that cross a month or a year boundary included
C16_WeekWellFormed ==
    latest # <<>> => WellFormedWeek(WrittenWeek(latest[1]))

=============================================================================
